---- MODULE Spec2Model ----
(***************************************************************************)
(* Model of the task lifecycle controller of client/task.go: the local     *)
(* task object (pid, io handle), the remote task it drives through the     *)
(* task service, the background goroutines spawned by Wait, and the        *)
(* multi-step Delete and Checkpoint calls.                                 *)
(*                                                                         *)
(* One caller thread issues the calls (pc is its position); the remote     *)
(* process and the Wait goroutines run concurrently with it.  Every call   *)
(* records the requests it issues, in order, in `trace'; the trace and the *)
(* result `ret' of the last call stay readable until the next call begins. *)
(***************************************************************************)
EXTENDS Integers, Sequences, FiniteSets, TLC

\* ---------------------------------------------------------------- bounds
MaxWaits == 2          \* Wait invocations per behaviour
MaxPid == 1            \* pids the start RPC may return: 1..MaxPid
MaxRetainedWaits == 1  \* Wait invocations on a deleted task's object

\* ------------------------------------------------------ program constants
UnknownExitStatus == 255

Running == "running"
Created == "created"
Stopped == "stopped"
Paused == "paused"
Pausing == "pausing"
Unknown == "unknown"

\* plugins.RuntimePlugin.String()+".windows" and plugins.RuntimeRuncV2
WindowsRuntime == "io.containerd.runtime.v1.windows"
RuntimeRuncV2 == "io.containerd.runc.v2"
OtherRuntime == "io.containerd.kata.v2"
Runtimes == {RuntimeRuncV2, WindowsRuntime, OtherRuntime}

\* variant: c := make(chan ExitStatus), an unbuffered channel
WaitChanCapUnbuffered == 1 - 1
\* c := make(chan ExitStatus, 1)
WaitChanCap == 1

\* ------------------------------------------------------------ value sets
\* task.Status enum of the task service, as its String() prints it
RemoteStatuses == {"UNKNOWN", "CREATED", "RUNNING", "STOPPED", "PAUSED", "PAUSING"}
ExitCodes == {0, 137}
NilTs == <<>>
ExitTs == <<7, 5>>                 \* a protobuf timestamp <<seconds, nanos>>
\* time.Time: the zero value time.Time{}, or seconds and nanoseconds since the epoch
ZeroTime == [zero |-> TRUE, sec |-> 0, nsec |-> 0]

\* gRPC status codes the transport reports, and the errdefs kinds
GrpcNotFound == "NotFound"
GrpcFailedPrecondition == "FailedPrecondition"
GrpcUnavailable == "Unavailable"
ErrNotFound == "not found"
ErrFailedPrecondition == "failed precondition"
ErrInvalidArgument == "invalid argument"
ErrUnavailable == "unavailable"
ErrAlreadyExists == "already exists"
ErrOther == "error"

\* ---------------------------------------------------------- pure helpers
\* strings.ToLower on the enum's printed name
ToLower(s) ==
  CASE s = "UNKNOWN" -> "unknown"
    [] s = "CREATED" -> "created"
    [] s = "RUNNING" -> "running"
    [] s = "STOPPED" -> "stopped"
    [] s = "PAUSED" -> "paused"
    [] s = "PAUSING" -> "pausing"
    [] OTHER -> s

\* errgrpc.ToNative: gRPC status code to errdefs kind
ToNative(code) ==
  CASE code = GrpcNotFound -> ErrNotFound
    [] code = GrpcFailedPrecondition -> ErrFailedPrecondition
    [] code = GrpcUnavailable -> ErrUnavailable
    [] OTHER -> code

\* errdefs.IsNotFound
\* variants: no error is recognised as not-found; every error is
IsNotFoundNever(err) == FALSE
IsNotFoundAlways(err) == TRUE
IsNotFound(err) == err = ErrNotFound

\* protobuf.FromTimestamp: nil is the epoch, else seconds and nanos since it
FromTimestamp(ts) ==
  IF ts = NilTs THEN [zero |-> FALSE, sec |-> 0, nsec |-> 0]
  ELSE [zero |-> FALSE, sec |-> ts[1], nsec |-> ts[2]]

Ev(name, ok) == [e |-> name, ok |-> ok]

RECURSIVE CountEv(_, _)
CountEv(tr, name) ==
  IF tr = <<>> THEN 0
  ELSE (IF Head(tr).e = name THEN 1 ELSE 0) + CountEv(Tail(tr), name)

Issued(tr, name) == \E k \in 1..Len(tr) : tr[k].e = name
Succeeded(tr, name) == \E k \in 1..Len(tr) : tr[k].e = name /\ tr[k].ok
\* position of the first event of that name, Len+1 if there is none
FirstPos(tr, name) ==
  IF Issued(tr, name)
  THEN CHOOSE k \in 1..Len(tr) : tr[k].e = name /\ \A j \in 1..(k-1) : tr[j].e # name
  ELSE Len(tr) + 1

\* --------------------------------------------------------------- state
VARIABLES
  exists,     \* the task exists on the remote side
  rstatus,    \* its status there (task.Status enum)
  rexit,      \* its exit status there
  rexitAt,    \* its exit timestamp there (NilTs until it exits)
  pid,        \* t.pid
  hasIO,      \* t.io != nil
  container,  \* the owning container's record: Runtime.Name, Image, SnapshotKey
  pc,         \* position of the caller thread
  op,         \* the call in progress, or the last one
  trace,      \* requests issued by that call, in order
  loc,        \* its local variables
  ret,        \* its result
  defers,     \* its pending deferred calls, last registered first
  waits,      \* the goroutines spawned by Wait, by invocation number
  nwaits,     \* Wait invocations so far
  catalog,    \* image names registered in the image catalog
  content     \* indexes written to the content store

vars == <<exists, rstatus, rexit, rexitAt, pid, hasIO, container, pc, op, trace,
          loc, ret, defers, waits, nwaits, catalog, content>>

remoteVars == <<exists, rstatus, rexit, rexitAt>>

\* images.Image{}: no name, the zero descriptor as target
EmptyTarget == <<>>
EmptyImage == [name |-> "", target |-> EmptyTarget]

NoRet == [st |-> "none", err |-> "", code |-> 0, at |-> ZeroTime, msg |-> "",
          img |-> EmptyImage]
OkRet == [NoRet EXCEPT !.st = "ok"]
ErrRet(kind, msg) == [NoRet EXCEPT !.st = "err", !.err = kind, !.msg = msg]

NoLoc == [status |-> "", exitStatus |-> 0, runtime |-> "", crRuntime |-> "",
          crImage |-> "", crSnap |-> "", options |-> "nil", name |-> "",
          index |-> <<>>, resp |-> [code |-> 0, at |-> NilTs], wasPaused |-> FALSE,
          remote |-> "", id |-> "", annot |-> "", rpid |-> 0, rerr |-> "",
          statusErr |-> ""]

\* containers.Container as ContainerService().Get returns it
Images == {"", "image-1"}
SnapshotKeys == {"", "snap-1"}
Containers == [runtime : {RuntimeRuncV2, OtherRuntime}, image : Images, snap : SnapshotKeys]

\* a Wait goroutine: its position, the wait RPC's outcome, its channel c (the
\* buffered values, whether closed), and what was sent on and received from c
NoWait == [pc |-> "none", ok |-> FALSE, err |-> "", resp |-> [code |-> 0, at |-> NilTs],
           chan |-> <<>>, sent |-> 0, closed |-> FALSE, recvd |-> <<>>]

Init ==
  /\ exists = TRUE
  /\ rstatus \in RemoteStatuses
  /\ rexit = IF rstatus = "STOPPED" THEN 137 ELSE 0
  /\ rexitAt = IF rstatus = "STOPPED" THEN ExitTs ELSE NilTs
  /\ pid \in 0..MaxPid
  /\ hasIO \in BOOLEAN
  /\ container \in Containers
  /\ pc = "idle"
  /\ op = "none"
  /\ trace = <<>>
  /\ loc = NoLoc
  /\ ret = NoRet
  /\ defers = <<>>
  /\ waits = [w \in 1..MaxWaits |-> NoWait]
  /\ nwaits = 0
  /\ catalog = {}
  /\ content = {}

\* ---------------------------------------------------- the remote process
\* the task's process exits on its own
ProcessExit ==
  /\ exists /\ rstatus = "RUNNING"
  /\ \E c \in ExitCodes : rexit' = c
  /\ rstatus' = "STOPPED"
  /\ rexitAt' = ExitTs
  /\ UNCHANGED <<exists, pid, hasIO, container, pc, op, trace, loc, ret, defers,
                 waits, nwaits, catalog, content>>

\* Outcome of TaskService().Get: <<ok, grpc code, status, exit status>>
GetOutcomes ==
  {<<FALSE, GrpcUnavailable, "", 0>>} \cup
  (IF exists THEN {<<TRUE, "", rstatus, rexit>>} ELSE {<<FALSE, GrpcNotFound, "", 0>>})

\* task.Status: the Status it returns and its error ("" for nil)
\* variant: the Get error is dropped and the zero Status returned
StatusOfErrorDropped(g) ==
  IF g[1] THEN [status |-> ToLower(g[3]), exitStatus |-> g[4], err |-> ""]
  ELSE [status |-> "", exitStatus |-> 0, err |-> ""]
StatusOf(g) ==
  IF g[1] THEN [status |-> ToLower(g[3]), exitStatus |-> g[4], err |-> ""]
  ELSE [status |-> "", exitStatus |-> 0, err |-> ToNative(g[2])]

\* Every call starts from the idle caller and forgets the previous call.
\* Finish(o, tr, r) is the caller returning r from call o after issuing tr.
Finish(o, tr, r) ==
  /\ pc' = "idle"
  /\ op' = o
  /\ trace' = tr
  /\ ret' = r
  /\ defers' = <<>>

\* ------------------------------------------------------------ task.Start
StartOutcomes ==
  {<<FALSE, GrpcUnavailable, 0>>} \cup
  (IF ~exists THEN {<<FALSE, GrpcNotFound, 0>>}
   ELSE IF rstatus = "CREATED" THEN {<<TRUE, "", p>> : p \in 1..MaxPid}
   ELSE {<<FALSE, GrpcFailedPrecondition, 0>>})

\* if t.io != nil { t.io.Cancel(); t.io.Close() }
\* variant: the failure branch returns without touching t.io
StartFailureIONone(io) == <<>>
StartFailureIO(io) ==
  IF io THEN <<Ev("io.Cancel", TRUE), Ev("io.Close", TRUE)>> ELSE <<>>

Start ==
  /\ pc = "idle"
  /\ \E o \in StartOutcomes :
       LET rpc == <<Ev("rpc.Start", o[1])>> IN
       IF o[1]
       THEN /\ pid' = o[3]
            /\ rstatus' = "RUNNING"
            /\ Finish("Start", rpc, OkRet)
            /\ loc' = [NoLoc EXCEPT !.rpid = o[3]]
       ELSE /\ Finish("Start", rpc \o StartFailureIO(hasIO), ErrRet(ToNative(o[2]), ""))
            /\ loc' = [NoLoc EXCEPT !.rerr = o[2]]
            /\ UNCHANGED <<pid, rstatus>>
  /\ UNCHANGED <<exists, rexit, rexitAt, hasIO, container, waits, nwaits, catalog, content>>

\* ------------------------------------------------------------- task.Kill
KillOutcomes ==
  {<<FALSE, GrpcUnavailable>>} \cup
  (IF ~exists THEN {<<FALSE, GrpcNotFound>>}
   ELSE IF rstatus \in {"CREATED", "RUNNING", "PAUSED", "PAUSING"} THEN {<<TRUE, "">>}
   ELSE {<<FALSE, GrpcNotFound>>})

\* optOK: every KillOpts function returned nil
Kill ==
  /\ pc = "idle"
  /\ \E optOK \in BOOLEAN, o \in KillOutcomes :
       IF ~optOK
       THEN /\ Finish("Kill", <<Ev("opt", FALSE)>>, ErrRet(ErrOther, ""))
            /\ UNCHANGED remoteVars
       ELSE IF o[1]
       THEN /\ Finish("Kill", <<Ev("rpc.Kill", TRUE)>>, OkRet)
            /\ rstatus' = "STOPPED"
            /\ \E c \in ExitCodes \ {0} : rexit' = c
            /\ rexitAt' = ExitTs
            /\ UNCHANGED exists
       ELSE /\ Finish("Kill", <<Ev("rpc.Kill", FALSE)>>, ErrRet(ToNative(o[2]), ""))
            /\ UNCHANGED remoteVars
  /\ loc' = NoLoc
  /\ UNCHANGED <<pid, hasIO, container, waits, nwaits, catalog, content>>

\* ----------------------------------------------------- task.Pause/Resume
PauseOutcomes ==
  {<<FALSE, GrpcUnavailable>>} \cup
  (IF ~exists THEN {<<FALSE, GrpcNotFound>>}
   ELSE IF rstatus = "RUNNING" THEN {<<TRUE, "">>}
   ELSE {<<FALSE, GrpcFailedPrecondition>>})

ResumeOutcomes ==
  {<<FALSE, GrpcUnavailable>>} \cup
  (IF ~exists THEN {<<FALSE, GrpcNotFound>>}
   ELSE IF rstatus = "PAUSED" THEN {<<TRUE, "">>}
   ELSE {<<FALSE, GrpcFailedPrecondition>>})

\* the error task.Pause / task.Resume return for an RPC outcome
RpcResult(o) == IF o[1] THEN OkRet ELSE ErrRet(ToNative(o[2]), "")

Pause ==
  /\ pc = "idle"
  /\ \E o \in PauseOutcomes :
       /\ Finish("Pause", <<Ev("rpc.Pause", o[1])>>, RpcResult(o))
       /\ rstatus' = IF o[1] THEN "PAUSED" ELSE rstatus
  /\ loc' = NoLoc
  /\ UNCHANGED <<exists, rexit, rexitAt, pid, hasIO, container, waits, nwaits,
                 catalog, content>>

Resume ==
  /\ pc = "idle"
  /\ \E o \in ResumeOutcomes :
       /\ Finish("Resume", <<Ev("rpc.Resume", o[1])>>, RpcResult(o))
       /\ rstatus' = IF o[1] THEN "RUNNING" ELSE rstatus
  /\ loc' = NoLoc
  /\ UNCHANGED <<exists, rexit, rexitAt, pid, hasIO, container, waits, nwaits,
                 catalog, content>>

\* ----------------------------------------------------------- task.Status
Status ==
  /\ pc = "idle"
  /\ \E g \in GetOutcomes :
       LET st == StatusOf(g) IN
       /\ Finish("Status", <<Ev("rpc.Get", g[1])>>,
                 IF st.err = "" THEN [OkRet EXCEPT !.msg = st.status, !.code = st.exitStatus]
                 ELSE ErrRet(st.err, ""))
  /\ loc' = NoLoc
  /\ UNCHANGED <<exists, rstatus, rexit, rexitAt, pid, hasIO, container, waits,
                 nwaits, catalog, content>>

\* ----------------------------------------------------------- task.Delete
\* The switch on status.Status: TRUE when Delete goes on to the delete RPC.
\* variants: the switch left out; the Created case without its fallthrough
DeletePreconditionNoSwitch(status, runtime, p) == TRUE
DeletePreconditionCreatedAlways(status, runtime, p) ==
  status \in {Stopped, Unknown, "", Created}
DeletePrecondition(status, runtime, p) ==
  CASE status \in {Stopped, Unknown, ""} -> TRUE
    [] status = Created ->
         IF runtime = WindowsRuntime THEN TRUE
         ELSE IF p = 0 THEN TRUE
         ELSE FALSE
    [] OTHER -> FALSE

\* the calls on t.io before the delete RPC
\* variant: Close first on every runtime
DeleteIOBeforeAlwaysClose(io, runtime) ==
  IF io
  THEN <<Ev("io.Close", TRUE), Ev("io.Cancel", TRUE), Ev("io.Wait", TRUE)>>
  ELSE <<>>
DeleteIOBefore(io, runtime) ==
  IF io
  THEN (IF runtime = WindowsRuntime THEN <<Ev("io.Close", TRUE)>> ELSE <<>>)
       \o <<Ev("io.Cancel", TRUE), Ev("io.Wait", TRUE)>>
  ELSE <<>>

\* the calls on t.io after a successful delete RPC
\* variant: the handle is left open
DeleteIOAfterNone(io) == <<>>
DeleteIOAfter(io) == IF io THEN <<Ev("io.Close", TRUE)>> ELSE <<>>

\* &ExitStatus{code: r.ExitStatus, exitedAt: protobuf.FromTimestamp(r.ExitedAt)}
\* variant: the code taken from the Status snapshot st
DeleteExitStatusFromStatus(r, st) ==
  [OkRet EXCEPT !.code = st.exitStatus, !.at = FromTimestamp(r.at)]
DeleteExitStatus(r, st) ==
  [OkRet EXCEPT !.code = r.code, !.at = FromTimestamp(r.at)]

\* Outcome of TaskService().Delete: <<ok, grpc code, response>>
DeleteOutcomes ==
  {<<FALSE, GrpcUnavailable, [code |-> 0, at |-> NilTs]>>} \cup
  (IF ~exists THEN {<<FALSE, GrpcNotFound, [code |-> 0, at |-> NilTs]>>}
   ELSE IF rstatus \in {"RUNNING", "PAUSED", "PAUSING"}
        THEN {<<FALSE, GrpcFailedPrecondition, [code |-> 0, at |-> NilTs]>>}
   ELSE {<<TRUE, "", [code |-> rexit, at |-> rexitAt]>>})

\* Delete up to the delete RPC: the pre-delete hooks, Status, defaultRuntime,
\* the precondition and the calls on t.io.  rt is defaultRuntime's result,
\* "" when it returned an error.
DeleteCall ==
  /\ pc = "idle"
  /\ op' = "Delete"
  /\ defers' = <<>>
  /\ \E hookOK \in BOOLEAN, g \in GetOutcomes, rt \in Runtimes \cup {""} :
       LET st == StatusOf(g)
           t1 == <<Ev("rpc.Get", g[1])>>
           t2 == t1 \o <<Ev("defaultRuntime", rt # "")>>
           seen == IF exists THEN ToLower(rstatus) ELSE ""
           l == [NoLoc EXCEPT !.status = st.status, !.exitStatus = st.exitStatus,
                              !.runtime = rt, !.remote = seen, !.statusErr = st.err]
       IN
       IF ~hookOK
       THEN /\ trace' = <<Ev("opt", FALSE)>>
            /\ ret' = ErrRet(ErrOther, "")
            /\ pc' = "idle" /\ loc' = NoLoc
       ELSE IF st.err # "" /\ IsNotFound(st.err)
       THEN /\ trace' = t1
            /\ ret' = ErrRet(st.err, "")
            /\ pc' = "idle" /\ loc' = [NoLoc EXCEPT !.statusErr = st.err]
       ELSE IF rt = ""
       THEN /\ trace' = t2
            /\ ret' = ErrRet(ErrOther, "failed to get default runtime")
            /\ pc' = "idle"
            /\ loc' = [l EXCEPT !.runtime = ""]
       ELSE IF ~DeletePrecondition(st.status, rt, pid)
       THEN /\ trace' = t2
            /\ ret' = ErrRet(ErrFailedPrecondition, st.status)
            /\ pc' = "idle" /\ loc' = l
       ELSE /\ trace' = t2 \o DeleteIOBefore(hasIO, rt)
            /\ ret' = NoRet
            /\ pc' = "del_rpc" /\ loc' = l
  /\ UNCHANGED <<exists, rstatus, rexit, rexitAt, pid, hasIO, container, waits, nwaits,
                 catalog, content>>

\* the delete RPC and what follows it
DeleteRPC ==
  /\ pc = "del_rpc"
  /\ pc' = "idle"
  /\ \E o \in DeleteOutcomes :
       IF o[1]
       THEN /\ exists' = FALSE
            /\ trace' = trace \o <<Ev("rpc.Delete", TRUE)>> \o DeleteIOAfter(hasIO)
            /\ loc' = [loc EXCEPT !.resp = o[3]]
            /\ ret' = DeleteExitStatus(o[3], loc)
       ELSE /\ trace' = trace \o <<Ev("rpc.Delete", FALSE)>>
            /\ ret' = ErrRet(ToNative(o[2]), "")
            /\ UNCHANGED <<exists, loc>>
  /\ UNCHANGED <<rstatus, rexit, rexitAt, pid, hasIO, container, op, defers, waits, nwaits,
                 catalog, content>>

\* ------------------------------------------------------------- task.Exec
ExecIds == {"", "exec1"}

\* if id == "" { return ... ErrInvalidArgument }
\* variant: no check of the id
ExecIdOKUnchecked(id) == TRUE
ExecIdOK(id) == id # ""

\* the deferred func: if retErr != nil && i != nil { i.Cancel(); i.Close() }
ExecDeferred(failed) ==
  IF failed THEN <<Ev("i.Cancel", TRUE), Ev("i.Close", TRUE)>> ELSE <<>>

\* the exec RPC's failure branch: i.Cancel(); i.Wait(); i.Close()
\* variant: the branch closes without waiting
ExecFailureIONoWait == <<Ev("i.Cancel", TRUE), Ev("i.Close", TRUE)>>
ExecFailureIO == <<Ev("i.Cancel", TRUE), Ev("i.Wait", TRUE), Ev("i.Close", TRUE)>>

ExecOutcomes ==
  {<<FALSE, GrpcUnavailable>>} \cup
  (IF ~exists THEN {<<FALSE, GrpcNotFound>>}
   ELSE IF rstatus = "RUNNING" THEN {<<TRUE, "">>}
   ELSE {<<FALSE, GrpcFailedPrecondition>>})

\* ioOK: ioCreate returned a handle; marshalOK: the spec marshalled
Exec ==
  /\ pc = "idle"
  /\ \E id \in ExecIds, ioOK \in BOOLEAN, marshalOK \in BOOLEAN, o \in ExecOutcomes :
       LET t1 == <<Ev("ioCreate", ioOK)>>
           t2 == t1 \o <<Ev("marshal", marshalOK)>>
           t3 == t2 \o <<Ev("i.Config", TRUE), Ev("rpc.Exec", o[1])>>
       IN
       /\ loc' = [NoLoc EXCEPT !.id = id]
       /\ IF ~ExecIdOK(id)
          THEN Finish("Exec", <<>>, ErrRet(ErrInvalidArgument, "exec id must not be empty"))
          ELSE IF ~ioOK
          THEN Finish("Exec", t1, ErrRet(ErrOther, ""))
          ELSE IF ~marshalOK
          THEN Finish("Exec", t2 \o ExecDeferred(TRUE), ErrRet(ErrOther, ""))
          ELSE IF ~o[1]
          THEN Finish("Exec", t3 \o ExecFailureIO \o ExecDeferred(TRUE),
                      ErrRet(ToNative(o[2]), ""))
          ELSE Finish("Exec", t3 \o ExecDeferred(FALSE), OkRet)
  /\ UNCHANGED <<exists, rstatus, rexit, rexitAt, pid, hasIO, container, waits, nwaits,
                 catalog, content>>

\* ----------------------------------------------------------- task.Update
\* Outcome of TaskService().Update: <<ok, grpc code>>
UpdateOutcomes ==
  {<<FALSE, GrpcUnavailable>>} \cup
  (IF ~exists THEN {<<FALSE, GrpcNotFound>>} ELSE {<<TRUE, "">>})

\* What Update does, in order.  optOK: every UpdateTaskOpts function returned
\* nil; hasRes: i.Resources != nil; marshalOK: typeurl.MarshalAny succeeded;
\* ok: the update RPC succeeded
\* variant: the error of MarshalAny is not checked
UpdateRequestsMarshalUnchecked(optOK, hasRes, marshalOK, ok) ==
  IF ~optOK THEN <<Ev("opt", FALSE)>>
  ELSE <<Ev("opt", TRUE)>>
         \o (IF hasRes THEN <<Ev("marshal", marshalOK)>> ELSE <<>>)
         \o <<Ev("rpc.Update", ok)>>
UpdateRequests(optOK, hasRes, marshalOK, ok) ==
  IF ~optOK THEN <<Ev("opt", FALSE)>>
  ELSE IF hasRes /\ ~marshalOK THEN <<Ev("opt", TRUE), Ev("marshal", FALSE)>>
  ELSE <<Ev("opt", TRUE)>>
         \o (IF hasRes THEN <<Ev("marshal", TRUE)>> ELSE <<>>)
         \o <<Ev("rpc.Update", ok)>>

Update ==
  /\ pc = "idle"
  /\ \E optOK \in BOOLEAN, hasRes \in BOOLEAN, marshalOK \in BOOLEAN, o \in UpdateOutcomes :
       LET tr == UpdateRequests(optOK, hasRes, marshalOK, o[1]) IN
       Finish("Update", tr,
              IF ~Issued(tr, "rpc.Update") THEN ErrRet(ErrOther, "")
              ELSE RpcResult(o))
  /\ loc' = NoLoc
  /\ UNCHANGED <<exists, rstatus, rexit, rexitAt, pid, hasIO, container, waits, nwaits,
                 catalog, content>>

\* ------------------------------------------------------- task.Checkpoint
\* i.Options: nil, *options.CheckpointOptions with or without an ImagePath,
\* or a value of another type
CkOptions == {"nil", "path", "nopath", "other"}
CkName == "checkpoint-1"

\* variant: the ImagePath test inverted
isCheckpointPathExistInverted(runtime, v) ==
  IF v = "nil" THEN FALSE
  ELSE IF runtime = RuntimeRuncV2 THEN v = "nopath"
  ELSE FALSE
\* only suitable for runc runtime now
isCheckpointPathExist(runtime, v) ==
  IF v = "nil" THEN FALSE
  ELSE IF runtime = RuntimeRuncV2 THEN v = "path"
  ELSE FALSE

\* defer done(ctx): the lease's release, registered first, run last
\* variant: done is not deferred
DeferDoneMissing(d) == d
DeferDone(d) == <<"lease.done">> \o d

\* defer t.Resume(ctx): registered last, run first
\* variants: Resume is not deferred; Resume runs after every other deferred call
DeferResumeMissing(d) == d
DeferResumeOutermost(d) == d \o <<"Resume">>
DeferResume(d) == <<"Resume">> \o d

\* the deferred calls that run when Checkpoint returns; failed: it returns an error
\* variant: Resume called at the end of the success path instead of deferred
DeferredOnReturnSuccessOnly(d, failed) ==
  IF failed THEN SelectSeq(d, LAMBDA x : x # "Resume") ELSE d
DeferredOnReturn(d, failed) == d

\* writeContent: <<err, committed>> for the store's behaviour; the descriptor
\* it returns is the content's digest, here the content itself.
\* writerOK: store.Writer succeeded; copyOK: io.Copy succeeded;
\* commit: "ok", "exists" (already-exists, tolerated) or "err"
\* variant: every Commit error tolerated, not only already-exists
writeContentAnyCommitError(writerOK, copyOK, commit) ==
  IF ~writerOK THEN <<ErrOther, FALSE>>
  ELSE IF ~copyOK THEN <<ErrOther, FALSE>>
  ELSE <<"", commit = "ok">>
writeContent(writerOK, copyOK, commit) ==
  IF ~writerOK THEN <<ErrOther, FALSE>>
  ELSE IF ~copyOK THEN <<ErrOther, FALSE>>
  ELSE IF commit = "err" THEN <<ErrOther, FALSE>>
  ELSE IF commit = "exists" THEN <<"", FALSE>>
  ELSE <<"", TRUE>>

\* Checkpoint returns r after issuing tr: its deferred calls run next
CkReturn(tr, r, d) ==
  LET run == DeferredOnReturn(d, r.st = "err") IN
  /\ trace' = tr
  /\ ret' = r
  /\ defers' = run
  /\ pc' = IF run = <<>> THEN "idle" ELSE "ck_defers"

\* Checkpoint goes on to position p
CkGoto(tr, p) ==
  /\ trace' = tr
  /\ pc' = p
  /\ UNCHANGED ret

\* What can happen in Checkpoint before its Status call: WithLease fails,
\* ContainerService().Get fails, an option function fails, the options v do
\* not marshal, or all succeed with options v
CkInputs ==
  {<<"lease", "nil">>, <<"get", "nil">>, <<"opt", "nil">>}
    \cup {<<"marshal", v>> : v \in CkOptions \ {"nil"}}
    \cup {<<"ok", v>> : v \in CkOptions}

\* WithLease, ContainerService().Get, the option functions, the marshalling
CheckpointCall ==
  /\ pc = "idle"
  /\ op' = "Checkpoint"
  /\ \E in \in CkInputs :
       LET v == in[2]
           l0 == [NoLoc EXCEPT !.wasPaused = (exists /\ rstatus = "PAUSED")]
           l == [l0 EXCEPT !.crRuntime = container.runtime, !.crImage = container.image,
                           !.crSnap = container.snap, !.options = v, !.name = CkName]
           d == DeferDone(<<>>)
           t1 == <<Ev("lease.acquire", in[1] # "lease")>>
           t2 == t1 \o <<Ev("container.Get", in[1] # "get")>>
           t3 == t2 \o <<Ev("opt", in[1] # "opt")>>
           t4 == t3 \o (IF v # "nil" THEN <<Ev("marshal", in[1] # "marshal")>> ELSE <<>>)
       IN
       CASE in[1] = "lease" -> CkReturn(t1, ErrRet(ErrOther, ""), <<>>) /\ loc' = l0
         [] in[1] = "get" -> CkReturn(t2, ErrRet(ErrNotFound, ""), d) /\ loc' = l0
         [] in[1] = "opt" -> CkReturn(t3, ErrRet(ErrOther, ""), d) /\ loc' = l
         [] in[1] = "marshal" -> CkReturn(t4, ErrRet(ErrOther, ""), d) /\ loc' = l
         [] OTHER -> /\ trace' = t4 /\ pc' = "ck_status" /\ ret' = NoRet /\ defers' = d
                     /\ loc' = l
  /\ UNCHANGED <<exists, rstatus, rexit, rexitAt, pid, hasIO, container, waits, nwaits,
                 catalog, content>>

\* status, err := t.Status(ctx)
CheckpointStatus ==
  /\ pc = "ck_status"
  /\ \E g \in GetOutcomes :
       LET st == StatusOf(g)
           t1 == trace \o <<Ev("rpc.Get", g[1])>>
       IN
       IF st.err # ""
       THEN /\ CkReturn(t1, ErrRet(st.err, ""), defers) /\ UNCHANGED loc
       ELSE /\ CkGoto(t1, "ck_pause") /\ UNCHANGED defers
            /\ loc' = [loc EXCEPT !.status = st.status, !.exitStatus = st.exitStatus]
  /\ UNCHANGED <<exists, rstatus, rexit, rexitAt, pid, hasIO, container, op, waits,
                 nwaits, catalog, content>>

\* if status.Status != Paused
\* variant: Pause whatever the status
NeedsPauseAlways(status) == TRUE
NeedsPause(status) == status # Paused

\* if status.Status != Paused { Pause; defer Resume }
CheckpointPause ==
  /\ pc = "ck_pause"
  /\ IF NeedsPause(loc.status)
     THEN \E o \in PauseOutcomes :
            LET t1 == trace \o <<Ev("rpc.Pause", o[1])>> IN
            IF o[1]
            THEN /\ rstatus' = "PAUSED"
                 /\ CkGoto(t1, "ck_task")
                 /\ defers' = DeferResume(defers)
            ELSE /\ CkReturn(t1, ErrRet(ToNative(o[2]), ""), defers)
                 /\ UNCHANGED rstatus
     ELSE /\ CkGoto(trace, "ck_task")
          /\ UNCHANGED <<rstatus, defers>>
  /\ UNCHANGED <<exists, rexit, rexitAt, pid, hasIO, container, op, loc, waits, nwaits,
                 catalog, content>>

\* Outcome of TaskService().Checkpoint: <<ok, grpc code, descriptors>>; a
\* runtime given an image path writes there and returns no descriptor
CheckpointOutcomes(v) ==
  {<<FALSE, GrpcUnavailable, <<>>>>} \cup
  (IF ~exists THEN {<<FALSE, GrpcNotFound, <<>>>>}
   ELSE {<<TRUE, "", IF v = "path" THEN <<>> ELSE <<"criu">>>>})

\* checkpointTask, then the isCheckpointPathExist short-circuit
CheckpointTask ==
  /\ pc = "ck_task"
  /\ \E o \in CheckpointOutcomes(loc.options) :
       LET t1 == trace \o <<Ev("rpc.Checkpoint", o[1])>> IN
       IF ~o[1]
       THEN /\ CkReturn(t1, ErrRet(ToNative(o[2]), ""), defers) /\ UNCHANGED loc
       ELSE IF isCheckpointPathExist(loc.crRuntime, loc.options)
       THEN /\ CkReturn(t1, [OkRet EXCEPT !.img = EmptyImage], defers)
            /\ loc' = [loc EXCEPT !.index = loc.index \o o[3]]
       ELSE /\ CkGoto(t1, "ck_image") /\ UNCHANGED defers
            /\ loc' = [loc EXCEPT !.index = loc.index \o o[3]]
  /\ UNCHANGED <<exists, rstatus, rexit, rexitAt, pid, hasIO, container, op, waits,
                 nwaits, catalog, content>>

\* if cr.Image != "" { checkpointImage; index.Annotations["image.name"] = cr.Image }
CheckpointImage ==
  /\ pc = "ck_image"
  /\ IF loc.crImage # ""
     THEN \E ok \in BOOLEAN :
            LET t1 == trace \o <<Ev("image.Get", ok)>> IN
            IF ~ok
            THEN /\ CkReturn(t1, ErrRet(ErrNotFound, ""), defers) /\ UNCHANGED loc
            ELSE /\ CkGoto(t1, "ck_snapshot") /\ UNCHANGED defers
                 /\ loc' = [loc EXCEPT !.index = Append(loc.index, "image-target"),
                                       !.annot = loc.crImage]
     ELSE /\ CkGoto(trace, "ck_snapshot") /\ UNCHANGED <<defers, loc>>
  /\ UNCHANGED <<exists, rstatus, rexit, rexitAt, pid, hasIO, container, op, waits,
                 nwaits, catalog, content>>

\* if cr.SnapshotKey != "" { checkpointRWSnapshot }
CheckpointRWSnapshot ==
  /\ pc = "ck_snapshot"
  /\ IF loc.crSnap # ""
     THEN \E ok \in BOOLEAN :
            LET t1 == trace \o <<Ev("diff.Create", ok)>> IN
            IF ~ok
            THEN /\ CkReturn(t1, ErrRet(ErrOther, ""), defers) /\ UNCHANGED loc
            ELSE /\ CkGoto(t1, "ck_index") /\ UNCHANGED defers
                 /\ loc' = [loc EXCEPT !.index = Append(loc.index, "rw-diff")]
     ELSE /\ CkGoto(trace, "ck_index") /\ UNCHANGED <<defers, loc>>
  /\ UNCHANGED <<exists, rstatus, rexit, rexitAt, pid, hasIO, container, op, waits,
                 nwaits, catalog, content>>

\* what the content store answers to a commit of blob b
CommitOutcomes(b) == IF b \in content THEN {"exists", "err"} ELSE {"ok", "err"}

\* desc, err := writeIndex(ctx, &index, t.client, t.id)
CheckpointWriteIndex ==
  /\ pc = "ck_index"
  /\ \E writerOK \in BOOLEAN, copyOK \in BOOLEAN, commit \in CommitOutcomes(loc.index) :
       LET w == writeContent(writerOK, copyOK, commit)
           t1 == trace \o <<Ev("content.Write", w[1] = "")>>
       IN
       IF w[1] # ""
       THEN /\ CkReturn(t1, ErrRet(w[1], ""), defers) /\ UNCHANGED content
       ELSE /\ CkGoto(t1, "ck_create") /\ UNCHANGED defers
            /\ content' = IF w[2] THEN content \cup {loc.index} ELSE content
  /\ UNCHANGED <<exists, rstatus, rexit, rexitAt, pid, hasIO, container, op, loc, waits,
                 nwaits, catalog>>

\* im, err = t.client.ImageService().Create(ctx, im)
CheckpointCreateImage ==
  /\ pc = "ck_create"
  /\ \E e \in (IF loc.name \in catalog THEN {ErrAlreadyExists} ELSE {"", ErrUnavailable}) :
       LET t1 == trace \o <<Ev("image.Create", e = "")>> IN
       IF e # ""
       THEN /\ CkReturn(t1, ErrRet(e, ""), defers) /\ UNCHANGED catalog
       ELSE /\ CkReturn(t1, [OkRet EXCEPT !.img = [name |-> loc.name,
                                                   target |-> <<"index", loc.index>>]],
                        defers)
            /\ catalog' = catalog \cup {loc.name}
  /\ UNCHANGED <<exists, rstatus, rexit, rexitAt, pid, hasIO, container, op, loc, waits,
                 nwaits, content>>

\* one deferred call runs: t.Resume(ctx), its error dropped, or done(ctx)
CheckpointDefer ==
  /\ pc = "ck_defers"
  /\ defers' = Tail(defers)
  /\ pc' = IF Tail(defers) = <<>> THEN "idle" ELSE "ck_defers"
  /\ IF Head(defers) = "Resume"
     THEN \E o \in ResumeOutcomes :
            /\ trace' = trace \o <<Ev("rpc.Resume", o[1])>>
            /\ rstatus' = IF o[1] THEN "RUNNING" ELSE rstatus
     ELSE /\ trace' = trace \o <<Ev("lease.release", TRUE)>>
          /\ UNCHANGED rstatus
  /\ UNCHANGED <<exists, rexit, rexitAt, pid, hasIO, container, op, loc, ret, waits,
                 nwaits, catalog, content>>

\* ------------------------------------------------------------- task.Wait
\* the ExitStatus the goroutine sends for the wait RPC's outcome
\* variant: the failure branch sends the response code, not UnknownExitStatus
WaitExitStatusNoSentinel(ok, r, err) ==
  [code |-> r.code, at |-> IF ok THEN FromTimestamp(r.at) ELSE ZeroTime,
   err |-> IF ok THEN "" ELSE err]
WaitExitStatus(ok, r, err) ==
  IF ~ok
  THEN [code |-> UnknownExitStatus, at |-> ZeroTime, err |-> err]
  ELSE [code |-> r.code, at |-> FromTimestamp(r.at), err |-> ""]

\* Outcome of TaskService().Wait: <<ok, grpc code, response>>; the RPC blocks
\* until the process has exited
WaitOutcomes ==
  {<<FALSE, GrpcUnavailable, [code |-> 0, at |-> NilTs]>>} \cup
  (IF ~exists THEN {<<FALSE, GrpcNotFound, [code |-> 0, at |-> NilTs]>>}
   ELSE IF rstatus = "STOPPED" THEN {<<TRUE, "", [code |-> rexit, at |-> rexitAt]>>}
   ELSE {})

\* Wait itself: make the channel, start the goroutine, return the channel
Wait ==
  /\ pc = "idle"
  /\ nwaits < MaxWaits
  /\ nwaits' = nwaits + 1
  /\ waits' = [waits EXCEPT ![nwaits + 1] = [NoWait EXCEPT !.pc = "rpc"]]
  /\ Finish("Wait", <<>>, OkRet)
  /\ loc' = NoLoc
  /\ UNCHANGED <<exists, rstatus, rexit, rexitAt, pid, hasIO, container, catalog, content>>

\* the goroutine's wait RPC returns
WaitRPC(w) ==
  /\ waits[w].pc = "rpc"
  /\ \E o \in WaitOutcomes :
       waits' = [waits EXCEPT ![w] = [@ EXCEPT !.pc = "send", !.ok = o[1],
                                                !.err = o[2], !.resp = o[3]]]
  /\ UNCHANGED <<exists, rstatus, rexit, rexitAt, pid, hasIO, container, pc, op, trace,
                 loc, ret, defers, nwaits, catalog, content>>

\* c <- ExitStatus{...}: blocks while the channel's buffer is full
WaitSend(w) ==
  /\ waits[w].pc = "send"
  /\ Len(waits[w].chan) < WaitChanCap
  /\ waits' = [waits EXCEPT ![w] =
       [@ EXCEPT !.pc = "close",
                 !.chan = Append(@, WaitExitStatus(waits[w].ok, waits[w].resp, waits[w].err)),
                 !.sent = @ + 1]]
  /\ UNCHANGED <<exists, rstatus, rexit, rexitAt, pid, hasIO, container, pc, op, trace,
                 loc, ret, defers, nwaits, catalog, content>>

\* defer close(c)
WaitClose(w) ==
  /\ waits[w].pc = "close"
  /\ waits' = [waits EXCEPT ![w] = [@ EXCEPT !.pc = "done", !.closed = TRUE]]
  /\ UNCHANGED <<exists, rstatus, rexit, rexitAt, pid, hasIO, container, pc, op, trace,
                 loc, ret, defers, nwaits, catalog, content>>

\* the caller receives a value from the channel Wait returned
Recv(w) ==
  /\ pc = "idle"
  /\ waits[w].chan # <<>>
  /\ waits' = [waits EXCEPT ![w] = [@ EXCEPT !.chan = Tail(@),
                                            !.recvd = Append(@, Head(waits[w].chan))]]
  /\ UNCHANGED <<exists, rstatus, rexit, rexitAt, pid, hasIO, container, pc, op, trace,
                 loc, ret, defers, nwaits, catalog, content>>

\* the remote process and every task method but Wait
Next ==
  \/ ProcessExit
  \/ Start
  \/ Kill
  \/ Pause
  \/ Resume
  \/ Status
  \/ DeleteCall
  \/ DeleteRPC
  \/ Exec
  \/ Update
  \/ CheckpointCall
  \/ CheckpointStatus
  \/ CheckpointPause
  \/ CheckpointTask
  \/ CheckpointImage
  \/ CheckpointRWSnapshot
  \/ CheckpointWriteIndex
  \/ CheckpointCreateImage
  \/ CheckpointDefer

\* Wait, its goroutines, and the calls that race with them
NextWait ==
  \/ ProcessExit
  \/ Kill
  \/ DeleteCall
  \/ DeleteRPC
  \/ Wait
  \/ \E w \in 1..MaxWaits : WaitRPC(w)
  \/ \E w \in 1..MaxWaits : WaitSend(w)
  \/ \E w \in 1..MaxWaits : WaitClose(w)
  \/ \E w \in 1..MaxWaits : Recv(w)

\* Wait and its goroutines alone, with the process exiting or being killed
NextGoroutines ==
  \/ ProcessExit
  \/ Kill
  \/ Wait
  \/ \E w \in 1..MaxWaits : WaitRPC(w)
  \/ \E w \in 1..MaxWaits : WaitSend(w)
  \/ \E w \in 1..MaxWaits : WaitClose(w)
  \/ \E w \in 1..MaxWaits : Recv(w)

\* The Wait goroutines write only `waits', which no other call reads, so the
\* calls are checked without them (Spec) and the goroutines with the calls
\* that change the remote task under them (WaitSpec).
Spec == Init /\ [][Next]_vars

\* no action of NextWait reads the container record, and the goroutines read
\* neither t.pid nor t.io
WaitInit ==
  /\ Init
  /\ container = [runtime |-> RuntimeRuncV2, image |-> "", snap |-> ""]
  /\ pid = 0
  /\ hasIO = FALSE

WaitSpec == WaitInit /\ [][NextWait]_vars

\* The Go scheduler runs every runnable goroutine: a Wait goroutine whose send
\* or close can proceed eventually does it.  Nothing obliges the wait RPC to
\* return or the caller to receive.
WaitFairSpec ==
  /\ WaitInit
  /\ [][NextGoroutines]_vars
  /\ \A w \in 1..MaxWaits : WF_vars(WaitSend(w)) /\ WF_vars(WaitClose(w))

\* Wait invoked on the task object its caller kept after deleting the task
WaitRetained ==
  /\ ~exists
  /\ nwaits < MaxRetainedWaits
  /\ Wait

\* every task method, Wait being called on the retained object of a deleted
\* task, and the goroutines of those Waits
NextRetained ==
  \/ Next
  \/ WaitRetained
  \/ \E w \in 1..MaxWaits : WaitRPC(w)
  \/ \E w \in 1..MaxWaits : WaitSend(w)
  \/ \E w \in 1..MaxWaits : WaitClose(w)
  \/ \E w \in 1..MaxWaits : Recv(w)

\* a task that has not been started and has no IO handle; no call gets as far
\* as reading the container record or the handle once the task is deleted
RetainedInit ==
  /\ Init
  /\ container = [runtime |-> RuntimeRuncV2, image |-> "", snap |-> ""]
  /\ pid = 0
  /\ hasIO = FALSE

RetainedSpec == RetainedInit /\ [][NextRetained]_vars

\* =================================================================
\* Properties
\* =================================================================

\* Delete has passed its precondition: it is at, or has issued, the delete RPC
DeletePassed == pc = "del_rpc" \/ Issued(trace, "rpc.Delete")

\* C1 as stated: whenever the task's remote status is running, paused or
\* pausing at Delete's status lookup (hooks passed, runtime resolved), Delete
\* fails with failed-precondition and never issues the delete RPC.
C1_Original ==
  (op = "Delete" /\ loc.remote \in {Running, Paused, Pausing} /\ loc.runtime # "")
    => /\ ~DeletePassed
       /\ ret.st = "err" /\ ret.err = ErrFailedPrecondition

\* C1 amended: whenever the status that Delete's Status lookup returned is
\* running, paused or pausing, on every runtime and for every pid, Delete
\* returns an error without issuing the delete RPC, and that error is
\* failed-precondition carrying the observed status once the default runtime
\* was resolved.
C1_ObservedRunningNotDeleted ==
  (op = "Delete" /\ loc.status \in {Running, Paused, Pausing})
    => /\ ~DeletePassed
       /\ pc = "idle"
       /\ ret.st = "err"
       /\ loc.runtime # "" => (ret.err = ErrFailedPrecondition /\ ret.msg = loc.status)

\* C1 witness: Delete refused a running task with a nonzero pid on the
\* windows-variant runtime
C1_Witness ==
  /\ op = "Delete" /\ pc = "idle"
  /\ loc.status = Running /\ loc.runtime = WindowsRuntime /\ pid # 0
  /\ ret.err = ErrFailedPrecondition /\ ret.msg = Running
  /\ ~Issued(trace, "rpc.Delete")

\* C2: whenever the status Delete observed is stopped, unknown or empty and
\* the runtime was resolved, whatever the runtime and the pid, Delete passes
\* the precondition and goes on to the delete RPC, and once that RPC has
\* succeeded Delete returns, without error, the code and the exit time of the
\* delete response.
C2_StoppedIsDeleted ==
  (op = "Delete" /\ loc.runtime # "" /\ loc.status \in {Stopped, Unknown, ""})
    => /\ DeletePassed
       /\ (pc = "idle" /\ Succeeded(trace, "rpc.Delete"))
            => /\ ret.st = "ok" /\ ret.err = ""
               /\ loc.resp = [code |-> rexit, at |-> rexitAt]
               /\ ret.code = loc.resp.code
               /\ ret.at = FromTimestamp(loc.resp.at) /\ ~ret.at.zero
               /\ loc.resp.at # NilTs => ret.at.sec = loc.resp.at[1]
               /\ loc.resp.at # NilTs => ret.at.nsec = loc.resp.at[2]

\* C2 witness: a Delete whose status lookup failed (empty status) on a task
\* with a nonzero pid returned the exit status 137 of the delete response
C2_Witness ==
  /\ op = "Delete" /\ pc = "idle"
  /\ loc.status = "" /\ loc.runtime = OtherRuntime /\ pid # 0
  /\ Succeeded(trace, "rpc.Delete")
  /\ ret.st = "ok" /\ ret.code = 137 /\ ret.at.sec = 7

\* C3: for an observed status created (runtime resolved): with pid 0 Delete
\* passes the precondition on every runtime; with a nonzero pid it passes
\* exactly on the windows-variant runtime; and when it does not pass it fails
\* with failed-precondition without issuing the delete RPC.
C3_CreatedPrecondition ==
  (op = "Delete" /\ loc.status = Created /\ loc.runtime # "")
    => /\ pid = 0 => DeletePassed
       /\ pid # 0 => (DeletePassed <=> loc.runtime = WindowsRuntime)
       /\ ~DeletePassed => /\ pc = "idle" /\ ret.st = "err"
                           /\ ret.err = ErrFailedPrecondition
                           /\ ~Issued(trace, "rpc.Delete")

\* C3 witness: a created task with a nonzero pid was deleted on the
\* windows-variant runtime
C3_Witness ==
  /\ op = "Delete" /\ pc = "idle"
  /\ loc.status = Created /\ loc.runtime = WindowsRuntime /\ pid # 0
  /\ Succeeded(trace, "rpc.Delete") /\ ret.st = "ok"

\* the channel of Wait invocation w holds or has yielded value v
Delivered(w) == waits[w].chan \o waits[w].recvd

\* C4: every Wait invocation has its own channel, on which at most one
\* ExitStatus is ever sent and which is closed only after exactly one was
\* sent, whatever Kill, Delete and the other Wait invocations do meanwhile;
\* the value sent has code 255 and the wait RPC's error when that RPC failed,
\* and the response's code and no error when it succeeded.
C4_WaitDeliversOnce ==
  \A w \in 1..MaxWaits :
    /\ waits[w].sent <= 1
    /\ Len(Delivered(w)) = waits[w].sent
    /\ waits[w].closed => waits[w].sent = 1
    /\ waits[w].pc \in {"close", "done"} => waits[w].sent = 1
    /\ (w > nwaits) => waits[w] = NoWait
    /\ \A k \in 1..Len(Delivered(w)) :
         LET v == Delivered(w)[k] IN
         IF waits[w].ok
         THEN v.code = waits[w].resp.code /\ v.err = ""
              /\ v.at = FromTimestamp(waits[w].resp.at)
         ELSE v.code = UnknownExitStatus /\ v.err = waits[w].err /\ v.err # ""

\* C4 witness: two Wait invocations, the first started before the task was
\* killed and both finished, one with the exit status and one with an error
C4_Witness ==
  /\ nwaits = 2
  /\ waits[1].closed /\ waits[1].ok /\ waits[1].recvd # <<>>
  /\ waits[1].recvd[1].code = 137
  /\ waits[2].closed /\ ~waits[2].ok /\ waits[2].chan # <<>>
  /\ waits[2].chan[1].code = UnknownExitStatus

\* C5: the goroutine's send never blocks: whenever the wait RPC has returned
\* and the goroutine is about to send, its channel has room, and from there
\* the goroutine always goes on to close the channel and end, with no receive
\* by the caller needed.
C5_SendNeverBlocks ==
  \A w \in 1..MaxWaits :
    /\ [](waits[w].pc = "send" => Len(waits[w].chan) < WaitChanCap)
    /\ (waits[w].pc = "send") ~> (waits[w].pc = "done" /\ waits[w].closed)

\* C5 witness: a goroutine has ended while its value is still in the channel
C5_Witness ==
  \E w \in 1..MaxWaits :
    waits[w].pc = "done" /\ waits[w].closed /\ Len(waits[w].chan) = 1 /\ waits[w].recvd = <<>>

\* C6: in every Checkpoint, Resume is issued at most once; while a Checkpoint
\* that paused the task has yet to issue it, the Resume is pending among its
\* deferred calls; and when such a Checkpoint has returned, on whatever path,
\* the Resume RPC has been issued exactly once, after the Pause.
C6_ResumeOncePerPause ==
  op = "Checkpoint" =>
    /\ CountEv(trace, "rpc.Resume") <= 1
    /\ Succeeded(trace, "rpc.Pause") =>
         /\ CountEv(trace, "rpc.Resume") + Len(SelectSeq(defers, LAMBDA x : x = "Resume")) = 1
         /\ pc = "idle" =>
              /\ CountEv(trace, "rpc.Resume") = 1
              /\ FirstPos(trace, "rpc.Pause") < FirstPos(trace, "rpc.Resume")

\* C6 witness: a Checkpoint that paused the task and then failed to register
\* the image (step 9) has returned its error after issuing one Resume
C6_Witness ==
  /\ op = "Checkpoint" /\ pc = "idle" /\ ret.st = "err"
  /\ Succeeded(trace, "rpc.Pause")
  /\ Issued(trace, "image.Create") /\ ~Succeeded(trace, "image.Create")
  /\ CountEv(trace, "rpc.Resume") = 1

\* the task is paused on the remote side
RemotePaused == exists /\ rstatus = "PAUSED"

C8_ExternalPathShortCircuit ==
  (op = "Checkpoint" /\ loc.crRuntime = RuntimeRuncV2 /\ loc.options = "path")
    => /\ ~Issued(trace, "content.Write")
       /\ ~Issued(trace, "image.Create")
       /\ Succeeded(trace, "rpc.Checkpoint") =>
            (ret.st = "ok" /\ ret.img = EmptyImage /\ ret.img.target = EmptyTarget)
       /\ ret.st = "ok" => Succeeded(trace, "rpc.Checkpoint")
       /\ (Issued(trace, "rpc.Checkpoint") /\ ~Succeeded(trace, "rpc.Checkpoint")) =>
            (ret.st = "err" /\ ret.err \in {ErrUnavailable, ErrNotFound})

\* C8 witness: such a Checkpoint has returned the empty image while the
\* container has both a source image and a snapshot
C8_Witness ==
  /\ op = "Checkpoint" /\ pc = "idle"
  /\ loc.crRuntime = RuntimeRuncV2 /\ loc.options = "path"
  /\ loc.crImage # "" /\ loc.crSnap # ""
  /\ Succeeded(trace, "rpc.Checkpoint")
  /\ ret.st = "ok" /\ ret.img.target = EmptyTarget

\* C9: an Exec with the empty exec id returns invalid-argument and has issued
\* nothing: the IO factory was not invoked and no exec RPC was sent.
C9_EmptyExecIdRejected ==
  (op = "Exec" /\ loc.id = "")
    => /\ ret.st = "err" /\ ret.err = ErrInvalidArgument
       /\ ~Issued(trace, "ioCreate")
       /\ ~Issued(trace, "rpc.Exec")
       /\ trace = <<>>

\* C9 witness: an Exec with the empty id has returned on a running task
C9_Witness ==
  /\ op = "Exec" /\ loc.id = "" /\ pc = "idle" /\ ret.st = "err"
  /\ exists /\ rstatus = "RUNNING"

\* every Close in tr comes after a successful delete RPC
ClosedOnlyAfterDelete(tr) ==
  \A k \in 1..Len(tr) :
    tr[k].e = "io.Close" => \E j \in 1..(k-1) : tr[j] = Ev("rpc.Delete", TRUE)

\* C10 as stated: in every Delete on a task with an IO handle, Close is not
\* invoked before the delete RPC has returned success.
C10_Original ==
  (op = "Delete" /\ hasIO) => ClosedOnlyAfterDelete(trace)

\* C10 amended: in a Delete on a task with an IO handle, on every runtime but
\* the windows-variant one Close is not invoked before the delete RPC has
\* returned success, so a failed delete RPC leaves the handle not closed; on
\* the windows-variant runtime a Delete that passes the precondition invokes
\* Close before it issues the delete RPC.
C10_CloseAfterDeleteExceptWindows ==
  (op = "Delete" /\ hasIO)
    => /\ loc.runtime # WindowsRuntime => ClosedOnlyAfterDelete(trace)
       /\ (loc.runtime # WindowsRuntime /\ pc = "idle" /\ ret.st = "err")
            => ~Issued(trace, "io.Close")
       /\ (loc.runtime = WindowsRuntime /\ DeletePassed)
            => (Issued(trace, "io.Close")
                /\ FirstPos(trace, "io.Close") < FirstPos(trace, "rpc.Delete"))

\* C10 witness: a Delete whose delete RPC failed has returned after letting
\* the IO drain, with no Close on the handle
C10_Witness ==
  /\ op = "Delete" /\ hasIO /\ pc = "idle" /\ ret.st = "err"
  /\ loc.runtime = RuntimeRuncV2
  /\ Issued(trace, "rpc.Delete") /\ ~Succeeded(trace, "rpc.Delete")
  /\ Issued(trace, "io.Wait") /\ ~Issued(trace, "io.Close")

\* event a, when issued in tr, comes before the first event b
Before(tr, a, b) == Issued(tr, a) => FirstPos(tr, a) < FirstPos(tr, b)

\* the descriptors a Checkpoint that goes past the short-circuit appends to
\* its index: the checkpoint RPC's, the source image's target, the rw diff
AppendedDescriptors ==
  (IF loc.options = "path" THEN <<>> ELSE <<"criu">>)
    \o (IF loc.crImage # "" THEN <<"image-target">> ELSE <<>>)
    \o (IF loc.crSnap # "" THEN <<"rw-diff">> ELSE <<>>)

\* the state part of C11
RegistrationIsLast ==
  op = "Checkpoint" =>
    /\ CountEv(trace, "image.Create") <= 1
    /\ CountEv(trace, "content.Write") <= 1
    /\ Issued(trace, "content.Write") =>
         /\ loc.index = AppendedDescriptors
         /\ Succeeded(trace, "rpc.Checkpoint")
         /\ loc.crImage # "" => Succeeded(trace, "image.Get")
         /\ loc.crSnap # "" => Succeeded(trace, "diff.Create")
         /\ Before(trace, "rpc.Checkpoint", "content.Write")
         /\ Before(trace, "image.Get", "content.Write")
         /\ Before(trace, "diff.Create", "content.Write")
    /\ Issued(trace, "image.Create") =>
         /\ Succeeded(trace, "content.Write")
         /\ loc.index \in content
         /\ Before(trace, "content.Write", "image.Create")
         /\ \A k \in (FirstPos(trace, "image.Create") + 1)..Len(trace) :
              trace[k].e \in {"rpc.Resume", "lease.release"}
    /\ Succeeded(trace, "image.Create") =>
         (ret.st = "ok" /\ ret.img = [name |-> loc.name, target |-> <<"index", loc.index>>]
          /\ loc.name \in catalog)
    /\ ret.st = "err" => ~Succeeded(trace, "image.Create")

\* the step part of C11: the catalog changes only by the successful
\* registration of the image a Checkpoint then returns
CatalogChangesOnlyByRegistration ==
  catalog' # catalog =>
    /\ op = "Checkpoint" /\ pc = "ck_create"
    /\ catalog' = catalog \cup {loc.name}
    /\ ret'.st = "ok"
    /\ trace' = Append(trace, Ev("image.Create", TRUE))

\* C11: in every Checkpoint the image registration is attempted at most once
\* and only after the checkpoint RPC, the source-image lookup and the
\* filesystem diff (where the container has them) and the index write have
\* succeeded; the index is written once, after every descriptor was appended,
\* and is in the content store when the registration is attempted; after the
\* registration the call issues only its deferred Resume and lease release;
\* and the catalog changes only in the step of a successful registration, so
\* a Checkpoint that returns an error has left the catalog as it was.
C11_RegistrationLast ==
  /\ []RegistrationIsLast
  /\ [][CatalogChangesOnlyByRegistration]_vars

\* C11 witness: a Checkpoint of a container with a source image and a
\* snapshot has registered its image, the three descriptors in the index
C11_Witness ==
  /\ op = "Checkpoint" /\ pc = "idle" /\ ret.st = "ok"
  /\ loc.crImage # "" /\ loc.crSnap # ""
  /\ loc.index = <<"criu", "image-target", "rw-diff">>
  /\ Succeeded(trace, "image.Create") /\ loc.name \in catalog
  /\ Succeeded(trace, "rpc.Resume")

\* C12 as stated: whenever Exec returns an error after the IO factory returned
\* a handle, the handle was cancelled, then waited on, then closed.
C12_Original ==
  (op = "Exec" /\ ret.st = "err" /\ Succeeded(trace, "ioCreate"))
    => /\ Issued(trace, "i.Cancel") /\ Issued(trace, "i.Wait") /\ Issued(trace, "i.Close")
       /\ FirstPos(trace, "i.Cancel") < FirstPos(trace, "i.Wait")
       /\ FirstPos(trace, "i.Wait") < FirstPos(trace, "i.Close")

\* the state part of C13: what a returned Start has issued and returned
StartResult ==
  op = "Start" =>
    /\ pc = "idle"
    /\ IF Succeeded(trace, "rpc.Start")
       THEN /\ ret.st = "ok"
            /\ trace = <<Ev("rpc.Start", TRUE)>>
            /\ pid = loc.rpid
       ELSE /\ ret.st = "err"
            /\ ret.err = ToNative(loc.rerr)
            /\ ret.err \in {ErrUnavailable, ErrNotFound, ErrFailedPrecondition}
            /\ trace = <<Ev("rpc.Start", FALSE)>>
                         \o (IF hasIO THEN <<Ev("io.Cancel", TRUE), Ev("io.Close", TRUE)>>
                             ELSE <<>>)

\* the step part of C13: Start keeps t.io, and t.pid too when it fails
StartKeeps ==
  Start => /\ hasIO' = hasIO
           /\ ret'.st = "err" => pid' = pid

\* C13: a Start whose start RPC succeeded has set t.pid to the pid of the
\* response and has invoked nothing on the IO handle; a Start whose start RPC
\* failed has left t.pid as it was, has invoked Cancel and then Close on the IO
\* handle if there is one, and returns the start RPC's error translated to its
\* errdefs kind; Start never replaces the handle.
C13_StartPidAndCleanup ==
  /\ []StartResult
  /\ [][StartKeeps]_vars

\* C13 witness: a Start refused with failed-precondition on a task that has
\* an IO handle and a nonzero pid has cancelled and closed the handle
C13_Witness ==
  /\ op = "Start" /\ ret.st = "err" /\ ret.err = ErrFailedPrecondition
  /\ loc.rerr = GrpcFailedPrecondition
  /\ hasIO /\ pid # 0
  /\ trace = <<Ev("rpc.Start", FALSE), Ev("io.Cancel", TRUE), Ev("io.Close", TRUE)>>

\* C14: a Delete whose Status lookup failed with not-found has returned that
\* error right after the lookup: it has issued nothing else, neither the
\* runtime lookup nor the delete RPC nor Cancel, Wait or Close on the handle.
C14_NotFoundStatusReturnsAtOnce ==
  (op = "Delete" /\ loc.statusErr = ErrNotFound)
    => /\ pc = "idle"
       /\ ret.st = "err" /\ ret.err = ErrNotFound
       /\ trace = <<Ev("rpc.Get", FALSE)>>
       /\ ~Issued(trace, "rpc.Delete")
       /\ ~Issued(trace, "io.Cancel") /\ ~Issued(trace, "io.Wait")
       /\ ~Issued(trace, "io.Close")

\* C14 witness: such a Delete has returned on a task that has an IO handle
C14_Witness ==
  /\ op = "Delete" /\ pc = "idle" /\ hasIO
  /\ loc.statusErr = ErrNotFound /\ ret.err = ErrNotFound
  /\ trace = <<Ev("rpc.Get", FALSE)>>

\* C16: every Checkpoint begins by acquiring the lease; one that fails to
\* acquire it returns at once and releases nothing; one that acquired it
\* releases it exactly once, as its last request before it returns, on every
\* path, the release pending among its deferred calls until then; and every
\* content-store or catalog write of the call comes after the acquisition and
\* before the release.
C16_LeaseHeldThenReleased ==
  op = "Checkpoint" =>
    /\ CountEv(trace, "lease.acquire") = 1
    /\ trace[1].e = "lease.acquire"
    /\ ~Succeeded(trace, "lease.acquire") =>
         (Len(trace) = 1 /\ pc = "idle" /\ ret.st = "err" /\ defers = <<>>)
    /\ Succeeded(trace, "lease.acquire") =>
         /\ CountEv(trace, "lease.release")
              + Len(SelectSeq(defers, LAMBDA x : x = "lease.done")) = 1
         /\ pc = "idle" =>
              (CountEv(trace, "lease.release") = 1
               /\ trace[Len(trace)].e = "lease.release")
         /\ \A k \in 1..Len(trace) :
              trace[k].e \in {"content.Write", "image.Create", "diff.Create"}
                => (1 < k /\ k < FirstPos(trace, "lease.release"))

\* C16 witness: a Checkpoint whose index write failed has released its lease
C16_Witness ==
  /\ op = "Checkpoint" /\ pc = "idle" /\ ret.st = "err"
  /\ Issued(trace, "content.Write") /\ ~Succeeded(trace, "content.Write")
  /\ Succeeded(trace, "diff.Create")
  /\ CountEv(trace, "lease.release") = 1

\* C17: in a Delete that passed the precondition on a task with an IO handle:
\* on the windows-variant runtime Close is invoked before the delete RPC; on
\* every other runtime Cancel and then Wait are invoked, once each, before the
\* delete RPC, and Close is invoked exactly once after a successful delete
\* RPC and not at all otherwise.
C17_DeleteIOOrder ==
  (op = "Delete" /\ hasIO /\ DeletePassed) =>
    IF loc.runtime = WindowsRuntime
    THEN /\ Issued(trace, "io.Close")
         /\ FirstPos(trace, "io.Close") < FirstPos(trace, "rpc.Delete")
    ELSE /\ CountEv(trace, "io.Cancel") = 1 /\ CountEv(trace, "io.Wait") = 1
         /\ FirstPos(trace, "io.Cancel") < FirstPos(trace, "io.Wait")
         /\ FirstPos(trace, "io.Wait") < FirstPos(trace, "rpc.Delete")
         /\ \A k \in 1..Len(trace) :
              trace[k].e = "io.Close" => FirstPos(trace, "rpc.Delete") < k
         /\ CountEv(trace, "io.Close") = IF Succeeded(trace, "rpc.Delete") THEN 1 ELSE 0

\* C17 witness: a Delete on another runtime has cancelled, drained, deleted
\* and then closed
C17_Witness ==
  /\ op = "Delete" /\ hasIO /\ pc = "idle" /\ ret.st = "ok"
  /\ loc.runtime = OtherRuntime
  /\ trace = <<Ev("rpc.Get", TRUE), Ev("defaultRuntime", TRUE), Ev("io.Cancel", TRUE),
               Ev("io.Wait", TRUE), Ev("rpc.Delete", TRUE), Ev("io.Close", TRUE)>>

\* every event c in tr has an event a somewhere before it
Preceded(tr, c, a) ==
  \A k \in 1..Len(tr) : tr[k].e = c => \E j \in 1..(k-1) : tr[j].e = a

\* every Close in tr comes after a Cancel and after a Wait that followed it
ShutDownInOrder(tr, cancel, wait, close) ==
  \A k \in 1..Len(tr) :
    tr[k].e = close =>
      \E i \in 1..(k-1), j \in 1..(k-1) : i < j /\ tr[i].e = cancel /\ tr[j].e = wait

WindowsDelete == op = "Delete" /\ loc.runtime = WindowsRuntime

\* C18 as stated: in Start, Exec and Delete, Close is never invoked on a
\* handle before Cancel and then Wait were invoked on it, except in Delete on
\* the windows-variant runtime.
C18_Original ==
  (op \in {"Start", "Exec", "Delete"} /\ ~WindowsDelete)
    => /\ ShutDownInOrder(trace, "io.Cancel", "io.Wait", "io.Close")
       /\ ShutDownInOrder(trace, "i.Cancel", "i.Wait", "i.Close")

\* C18 amended: in Start, Exec and Delete, Close is never invoked on a handle
\* before Cancel was invoked on it, except in Delete on the windows-variant
\* runtime, which closes first; Wait comes between the two in Delete on every
\* other runtime and in Exec once the exec RPC was issued, while the failure
\* path of Start and an Exec that fails before its exec RPC close right after
\* Cancel, without a Wait.
C18_CloseAfterCancel ==
  op \in {"Start", "Exec", "Delete"} =>
    /\ ~WindowsDelete => /\ Preceded(trace, "io.Close", "io.Cancel")
                         /\ Preceded(trace, "i.Close", "i.Cancel")
    /\ (op = "Delete" /\ ~WindowsDelete)
         => ShutDownInOrder(trace, "io.Cancel", "io.Wait", "io.Close")
    /\ (op = "Exec" /\ Issued(trace, "rpc.Exec"))
         => ShutDownInOrder(trace, "i.Cancel", "i.Wait", "i.Close")
    /\ op = "Start" => ~Issued(trace, "io.Wait")
    /\ (op = "Exec" /\ ~Issued(trace, "rpc.Exec")) => ~Issued(trace, "i.Wait")
    /\ (WindowsDelete /\ DeletePassed /\ hasIO)
         => FirstPos(trace, "io.Close") < FirstPos(trace, "io.Cancel")

\* C18 witness: an Exec whose exec RPC failed has cancelled, drained and
\* closed the handle it created
C18_Witness ==
  /\ op = "Exec" /\ ret.st = "err"
  /\ Issued(trace, "rpc.Exec") /\ ~Succeeded(trace, "rpc.Exec")
  /\ FirstPos(trace, "i.Cancel") < FirstPos(trace, "i.Wait")
  /\ FirstPos(trace, "i.Wait") < FirstPos(trace, "i.Close")
  /\ Issued(trace, "i.Close")

\* C19 as stated: within one Start, Exec or Delete, each of Cancel, Wait and
\* Close is invoked at most once on a given IO handle.
C19_Original ==
  op \in {"Start", "Exec", "Delete"} =>
    \A e \in {"io.Cancel", "io.Wait", "io.Close", "i.Cancel", "i.Wait", "i.Close"} :
      CountEv(trace, e) <= 1

\* the requests of steps 5 to 9 of Checkpoint
CaptureSteps == {"rpc.Checkpoint", "image.Get", "diff.Create"}
PublishSteps == {"content.Write", "image.Create"}

\* C20 as stated: in a Checkpoint that paused the task, the Pause RPC comes
\* before the checkpoint RPC, the Resume RPC after the captures of steps 5-8,
\* and the Resume RPC has been issued when step 9 (the index write, the image
\* registration) is issued.
C20_Original ==
  (op = "Checkpoint" /\ Succeeded(trace, "rpc.Pause")) =>
    /\ \A k \in 1..Len(trace) :
         trace[k].e \in CaptureSteps =>
           (FirstPos(trace, "rpc.Pause") < k /\ k < FirstPos(trace, "rpc.Resume"))
    /\ \A k \in 1..Len(trace) :
         trace[k].e \in PublishSteps => FirstPos(trace, "rpc.Resume") < k

\* C20 amended: in a Checkpoint that paused the task, the Pause RPC comes
\* before the checkpoint RPC and the Resume RPC is issued only once Checkpoint
\* returns, as its first deferred call: after the captures of steps 5-8 and
\* also after the index write and the image registration of step 9 when the
\* call gets that far, and before the lease is released.
C20_ResumeWhenCheckpointReturns ==
  (op = "Checkpoint" /\ Succeeded(trace, "rpc.Pause")) =>
    /\ \A k \in 1..Len(trace) :
         trace[k].e \in CaptureSteps \cup PublishSteps =>
           (FirstPos(trace, "rpc.Pause") < k /\ k < FirstPos(trace, "rpc.Resume"))
    /\ Issued(trace, "rpc.Resume") => (pc \in {"ck_defers", "idle"} /\ ret.st # "none")
    /\ Issued(trace, "lease.release") =>
         FirstPos(trace, "rpc.Resume") < FirstPos(trace, "lease.release")
    /\ pc = "idle" => Issued(trace, "rpc.Resume")

\* C20 witness: a Checkpoint that paused the task has registered its image
\* and then resumed the task
C20_Witness ==
  /\ op = "Checkpoint" /\ pc = "idle" /\ ret.st = "ok"
  /\ Succeeded(trace, "rpc.Pause") /\ Succeeded(trace, "image.Create")
  /\ FirstPos(trace, "image.Create") < FirstPos(trace, "rpc.Resume")
  /\ Succeeded(trace, "rpc.Resume") /\ exists /\ rstatus = "RUNNING"

\* a call on the task object returns in this step (Wait aside): the caller
\* comes back to idle from inside a call, or a one-step call has left its
\* name, requests, result or locals
CallReturns ==
  /\ pc' = "idle"
  /\ nwaits' = nwaits
  /\ \/ pc # "idle"
     \/ <<op, trace, ret, loc>>' # <<op, trace, ret, loc>>

\* C15 as stated: once a Delete has succeeded, every later Start, Kill, Pause,
\* Resume, Status, Wait, Exec, Checkpoint and Delete on the task object
\* returns an error, and a later Delete issues no delete RPC.
C15_Original ==
  [][(~exists /\ (CallReturns \/ Wait)) =>
       /\ ret'.st = "err"
       /\ op' = "Delete" => ~Issued(trace', "rpc.Delete")]_vars

\* the state part of C15: the wait RPC of a Wait invoked on the retained
\* object fails, and its channel carries 255 and that error
RetainedWaitFails ==
  \A w \in 1..MaxWaits :
    /\ waits[w].pc # "none" => ~exists
    /\ waits[w].pc \in {"send", "close", "done"} => (~waits[w].ok /\ waits[w].err # "")
    /\ \A k \in 1..Len(Delivered(w)) :
         /\ Delivered(w)[k].code = UnknownExitStatus
         /\ Delivered(w)[k].err = waits[w].err

\* the step part of C15
RetainedCallsFail ==
  ~exists =>
    /\ CallReturns =>
         /\ ret'.st = "err"
         /\ op' = "Delete" => ~Succeeded(trace', "rpc.Delete")
         /\ (op' = "Delete" /\ Issued(trace', "rpc.Delete"))
              => loc'.statusErr \notin {"", ErrNotFound}
    /\ Wait => (ret'.st = "ok" /\ waits'[nwaits + 1].pc = "rpc")

\* C15 amended: once a Delete has succeeded, every later Start, Kill, Pause,
\* Resume, Status, Exec, Checkpoint and Delete on the task object returns an
\* error; a later Delete never reports success and issues a delete RPC only
\* when its own Status lookup failed with an error other than not-found; a
\* later Wait returns its channel and no error, and the channel then carries
\* the exit code 255 with the wait RPC's error.
C15_RetainedObjectFails ==
  /\ []RetainedWaitFails
  /\ [][RetainedCallsFail]_vars

\* C15 witness: on the object of a deleted task, a Wait has delivered 255 and
\* a second Delete, its Status lookup unavailable, had its delete RPC refused
C15_Witness ==
  /\ ~exists /\ op = "Delete" /\ pc = "idle" /\ ret.st = "err"
  /\ loc.statusErr = ErrUnavailable
  /\ Issued(trace, "rpc.Delete") /\ ~Succeeded(trace, "rpc.Delete")
  /\ nwaits = 1 /\ waits[1].recvd # <<>>
  /\ waits[1].recvd[1].code = UnknownExitStatus

\* the requests a call sends to the task service and to the other services
\* (leases, containers, images, diff, content store)
TaskRPCs == {"rpc.Start", "rpc.Kill", "rpc.Pause", "rpc.Resume", "rpc.Get",
             "rpc.Delete", "rpc.Exec", "rpc.Update", "rpc.Checkpoint"}
RemoteRequests == TaskRPCs \cup {"lease.acquire", "lease.release", "container.Get",
                                 "image.Get", "diff.Create", "content.Write",
                                 "image.Create"}

\* the call failed a local validation: the exec id is empty, an option
\* function returned an error, or the options or the spec did not marshal
ValidationFailed ==
  \/ op = "Exec" /\ loc.id = ""
  \/ \E k \in 1..Len(trace) : trace[k] \in {Ev("opt", FALSE), Ev("marshal", FALSE)}

\* position of the failed validation in the trace, 0 for the empty exec id
ValidationPos ==
  IF op = "Exec" /\ loc.id = "" THEN 0
  ELSE CHOOSE k \in 1..Len(trace) : trace[k] \in {Ev("opt", FALSE), Ev("marshal", FALSE)}

\* C21 as stated: an Exec, Kill, Update or Checkpoint that failed a local
\* validation has issued no RPC and no other remote request before it.
C21_Original ==
  (op \in {"Exec", "Kill", "Update", "Checkpoint"} /\ ValidationFailed) =>
    \A k \in 1..Len(trace) : k < ValidationPos => trace[k].e \notin RemoteRequests

\* C21 amended: an Exec, Kill or Update that failed a local validation
\* returns an error and has issued no RPC and no other remote request at all;
\* a Checkpoint that failed one (an option function, the marshalling of its
\* options) returns an error and has issued no request to the task service,
\* but it had by then acquired its lease and fetched the container record,
\* and it releases the lease as it returns.
C21_ValidationBeforeTaskRPC ==
  (op \in {"Exec", "Kill", "Update", "Checkpoint"} /\ ValidationFailed) =>
    /\ ret.st = "err"
    /\ \A k \in 1..Len(trace) : trace[k].e \notin TaskRPCs
    /\ op # "Checkpoint" => \A k \in 1..Len(trace) : trace[k].e \notin RemoteRequests
    /\ op = "Checkpoint" =>
         /\ trace[1] = Ev("lease.acquire", TRUE)
         /\ trace[2] = Ev("container.Get", TRUE)
         /\ ValidationPos \in {3, 4}
         /\ \A k \in 1..Len(trace) :
              k > ValidationPos => (trace[k].e = "lease.release" /\ pc = "idle")
         /\ pc = "idle" => trace[Len(trace)].e = "lease.release"

\* C21 witness: an Update whose resources did not marshal has returned its
\* error on an existing task without an update RPC
C21_Witness ==
  /\ op = "Update" /\ ret.st = "err" /\ exists
  /\ trace = <<Ev("opt", TRUE), Ev("marshal", FALSE)>>

\* C22: a Delete whose Status lookup failed with an error other than
\* not-found has dropped that error and gone on with the empty status to the
\* runtime lookup; once the runtime is resolved the precondition passes, Cancel
\* and then Wait are invoked on the IO handle if there is one, and the delete
\* RPC is issued, whatever the task's status on the remote side; only a failed
\* runtime lookup makes such a Delete return before the delete RPC.
C22_StatusErrorDiscarded ==
  (op = "Delete" /\ loc.statusErr \notin {"", ErrNotFound}) =>
    /\ trace[1] = Ev("rpc.Get", FALSE)
    /\ loc.status = ""
    /\ Issued(trace, "defaultRuntime")
    /\ ret.err # loc.statusErr \/ Issued(trace, "rpc.Delete")
    /\ IF loc.runtime = ""
       THEN /\ pc = "idle" /\ ret.st = "err"
            /\ trace = <<Ev("rpc.Get", FALSE), Ev("defaultRuntime", FALSE)>>
       ELSE /\ DeletePassed
            /\ pc = "idle" => Issued(trace, "rpc.Delete")
            /\ hasIO => /\ Issued(trace, "io.Cancel") /\ Issued(trace, "io.Wait")
                        /\ FirstPos(trace, "io.Cancel") < FirstPos(trace, "io.Wait")
                        /\ FirstPos(trace, "io.Wait") < FirstPos(trace, "rpc.Delete")

\* C22 witness: such a Delete on a running task with an IO handle has
\* cancelled and drained the IO and issued the delete RPC, which was refused
C22_Witness ==
  /\ op = "Delete" /\ pc = "idle" /\ hasIO
  /\ loc.statusErr = ErrUnavailable /\ loc.remote = Running
  /\ exists /\ rstatus = "RUNNING"
  /\ Issued(trace, "io.Wait")
  /\ Issued(trace, "rpc.Delete") /\ ~Succeeded(trace, "rpc.Delete")
  /\ ret.err = ErrFailedPrecondition

\* Checkpoint is past its Pause step
PastPause == pc \in {"ck_task", "ck_image", "ck_snapshot", "ck_index", "ck_create"}
               \/ Issued(trace, "rpc.Checkpoint")

\* C23: Checkpoint issues Pause only after a Status lookup that did not
\* return paused, and then always; its Resume is issued or pending only when
\* its own Pause succeeded; a Checkpoint that observed the task paused issues
\* neither Pause nor Resume and the task is paused while it runs and when it
\* has returned; a Checkpoint whose Pause failed returns that error, translated,
\* without issuing or deferring Resume and without the checkpoint RPC.
C23_PauseOnlyIfNotPaused ==
  op = "Checkpoint" =>
    /\ Issued(trace, "rpc.Pause") =>
         (Succeeded(trace, "rpc.Get") /\ loc.status # Paused
          /\ CountEv(trace, "rpc.Pause") = 1
          /\ FirstPos(trace, "rpc.Get") < FirstPos(trace, "rpc.Pause"))
    /\ (PastPause /\ loc.status # Paused) => Succeeded(trace, "rpc.Pause")
    /\ (Issued(trace, "rpc.Resume") \/ \E k \in 1..Len(defers) : defers[k] = "Resume")
         => Succeeded(trace, "rpc.Pause")
    /\ (Succeeded(trace, "rpc.Get") /\ loc.status = Paused) =>
         /\ ~Issued(trace, "rpc.Pause") /\ ~Issued(trace, "rpc.Resume")
         /\ RemotePaused
    /\ (Issued(trace, "rpc.Pause") /\ ~Succeeded(trace, "rpc.Pause")) =>
         /\ ret.st = "err"
         /\ ret.err \in {ErrUnavailable, ErrNotFound, ErrFailedPrecondition}
         /\ ~Issued(trace, "rpc.Resume") /\ ~Issued(trace, "rpc.Checkpoint")
         /\ \A k \in 1..Len(defers) : defers[k] # "Resume"

\* C23 witness: a Checkpoint of a task it found paused has registered its
\* image without a Pause or a Resume, and the task is still paused
C23_Witness ==
  /\ op = "Checkpoint" /\ pc = "idle" /\ ret.st = "ok"
  /\ loc.status = Paused /\ RemotePaused
  /\ Succeeded(trace, "rpc.Checkpoint") /\ Succeeded(trace, "image.Create")
  /\ ~Issued(trace, "rpc.Pause") /\ ~Issued(trace, "rpc.Resume")

====
